---- MODULE Spec2Model ----
(***************************************************************************)
(* Model of the CustomBottomSheet component (src/src/CustomBottomSheet.tsx)*)
(* One shared height value driven by spring/timing animations and by drag  *)
(* events, one drag flag, the visibility effect, the pan gesture handlers  *)
(* and the backdrop press handler.                                         *)
(*                                                                         *)
(* Heights are pixels; the model draws them from a grid of multiples of 40 *)
(* so that the fixed close threshold (80) falls on, above and below grid   *)
(* points.                                                                 *)
(***************************************************************************)
EXTENDS Integers, FiniteSets, Sequences, TLC

VARIABLES
    props,          \* the component's props (fixed after mount, except visible)
    visible,        \* the `visible` prop
    animatedHeight, \* animatedHeight.value
    isDragging,     \* isDragging.value
    gestureActive,  \* the pan gesture recogniser is in its ACTIVE state
    startHeight,    \* ctx.startHeight of the gesture handler context
    anim,           \* the animation currently assigned to animatedHeight
    closeCount,     \* number of runOnJS(onClose)() calls made so far
    pendingOnClose, \* of these, the calls the JS thread has not run yet
    lastNotified,   \* argument of the last onHeightChange() call, or NoValue
    lastCmd,        \* the last handler that ran (history)
    scenario,       \* visibility changes since mount, while nothing else happened (history)
    replacedClose   \* the last height command replaced a running close animation (history)

vars == << props, visible, animatedHeight, isDragging, gestureActive,
           startHeight, anim, closeCount, pendingOnClose, lastNotified, lastCmd,
           scenario, replacedClose >>

----------------------------------------------------------------------------
(* Bounds of the model *)

\* onClose invocations after which the environment sends no further events
MaxCloses == 2

\* the frames an animation may pass through
Grid == { -40, 0, 40, 80, 120, 160, 200, 240, 280 }

\* the values of event.translationY delivered to onActive
TranslationYs == { -240, -80, -40, 0, 40, 80, 240 }

\* the props the sheet is mounted with (height > 0, minHeight <= maxHeight)
PropsSet ==
    [ height         : {120, 200},
      minHeight      : {0, 80},
      maxHeight      : {160, 240},
      disableClose   : BOOLEAN,
      isModal        : BOOLEAN,
      showBackdrop   : BOOLEAN,
      onHeightChange : BOOLEAN ]     \* TRUE: an observer is supplied

NoValue == "undefined"

----------------------------------------------------------------------------
(* Props and constants of the component *)

height       == props.height
minHeight    == props.minHeight
maxHeight    == props.maxHeight
disableClose == props.disableClose
isModal      == props.isModal
showBackdrop == props.showBackdrop
onHeightChange == props.onHeightChange

\* `height - 80` in onEnd
CloseThreshold == 80

MathMax(a, b) == IF a >= b THEN a ELSE b
MathMin(a, b) == IF a <= b THEN a ELSE b
Abs(a) == IF a >= 0 THEN a ELSE -a

----------------------------------------------------------------------------
(* Animations *)

NoAnim == [ active |-> FALSE, kind |-> "none", toValue |-> 0, closeCb |-> FALSE ]

\* withSpring(toValue, {damping: 15, stiffness: 100})
withSpring(toValue) ==
    [ active |-> TRUE, kind |-> "spring", toValue |-> toValue, closeCb |-> FALSE ]

\* withTiming(0, {duration: 300, easing}) without completion callback
withTiming(toValue) ==
    [ active |-> TRUE, kind |-> "timing", toValue |-> toValue, closeCb |-> FALSE ]

\* withTiming(0, {...}, (finished) => { if (finished) runOnJS(onClose)() })
withTimingThenClose(toValue) ==
    [ active |-> TRUE, kind |-> "timing", toValue |-> toValue, closeCb |-> TRUE ]

\* The intermediate frames of an animation at value cur: a timing animation
\* moves monotonically towards toValue; the spring (damping ratio 0.75) may
\* overshoot within its amplitude.
Frames(a, cur) ==
    IF a.kind = "timing"
    THEN { v \in Grid : \/ (cur < v /\ v < a.toValue)
                        \/ (a.toValue < v /\ v < cur) }
    ELSE { v \in Grid : v # cur /\ Abs(v - a.toValue) <= Abs(cur - a.toValue) }

----------------------------------------------------------------------------
(* The pieces of the handlers *)

\* variant: the open height is limited to maxHeight
EffectAnimClamped(vis) ==
    IF vis THEN withSpring(MathMin(height, maxHeight)) ELSE withTiming(0)

\* variant: the hide animation reports the close when it completes
EffectAnimThenClose(vis) ==
    IF vis THEN withSpring(height) ELSE withTimingThenClose(0)

\* useEffect body: the animation commanded for a value of `visible`
EffectAnim(vis) ==
    IF vis THEN withSpring(height) ELSE withTiming(0)

\* variant: the lower bound hard-coded as 0
ClampFromZero(newHeight) == MathMax(0, MathMin(maxHeight, newHeight))

\* onActive: Math.max(minHeight, Math.min(maxHeight, newHeight))
Clamp(newHeight) == MathMax(minHeight, MathMin(maxHeight, newHeight))

\* variant: the close animation has no completion callback
OnEndSnapNoCallback(h) ==
    IF h >= maxHeight THEN withSpring(maxHeight)
    ELSE IF h <= minHeight THEN withSpring(minHeight)
    ELSE IF h < height - CloseThreshold THEN withTiming(0)
    ELSE withSpring(height)

\* variant: the threshold comparison is <= instead of <
OnEndSnapInclusive(h) ==
    IF h >= maxHeight THEN withSpring(maxHeight)
    ELSE IF h <= minHeight THEN withSpring(minHeight)
    ELSE IF h <= height - CloseThreshold THEN withTimingThenClose(0)
    ELSE withSpring(height)

\* variant: the close threshold is tested before the bounds
OnEndSnapCloseFirst(h) ==
    IF h < height - CloseThreshold THEN withTimingThenClose(0)
    ELSE IF h >= maxHeight THEN withSpring(maxHeight)
    ELSE IF h <= minHeight THEN withSpring(minHeight)
    ELSE withSpring(height)

\* variant: a drag released inside the bounds and above the threshold stays
\* where it was released
OnEndSnapStay(h) ==
    IF h >= maxHeight THEN withSpring(maxHeight)
    ELSE IF h <= minHeight THEN withSpring(minHeight)
    ELSE IF h < height - CloseThreshold THEN withTimingThenClose(0)
    ELSE withSpring(h)

\* onEnd snap policy, h = animatedHeight.value at the end of the drag
OnEndSnapAnim(h) ==
    IF h >= maxHeight THEN withSpring(maxHeight)
    ELSE IF h <= minHeight THEN withSpring(minHeight)
    ELSE IF h < height - CloseThreshold THEN withTimingThenClose(0)
    ELSE withSpring(height)

\* variant: the disableClose branch of onEnd is missing
OnEndDisabledMissing == OnEndSnapAnim(animatedHeight)

\* variant: the snap-back target is limited to [minHeight, maxHeight]
OnEndDisabledClamped == withSpring(Clamp(height))

\* onEnd with disableClose
OnEndDisabledAnim == withSpring(height)

\* variant: the backdrop animation has no completion callback
BackdropAnimNoCallback == withTiming(0)

\* handleBackdropPress with closing enabled
BackdropAnim == withTimingThenClose(0)

\* variant: the observer is only told about changes made while dragging
DerivedNotifyDragOnly(old, new) ==
    IF onHeightChange /\ new # old /\ gestureActive THEN new ELSE lastNotified

\* useDerivedValue: the observer is told the new value when the value changes
DerivedNotify(old, new) ==
    IF onHeightChange /\ new # old THEN new ELSE lastNotified

\* variant: the completion callback does not look at `finished`
FinishedCallbackUnconditional(a, finished) == IF a.closeCb THEN 1 ELSE 0

\* (finished) => { if (finished) runOnJS(onClose)() }: the number of onClose
\* calls the completion callback of animation a makes
FinishedCallback(a, finished) == IF a.closeCb /\ finished THEN 1 ELSE 0

\* assigning a new value or animation replaces a running close animation
ReplacesClose(a) == a.active /\ a.closeCb

\* the PanGestureHandler is rendered: always inline, inside <Modal visible={vis}>
\* in modal mode
HandleMounted(vis) == isModal => vis

\* mounted hidden -> shown -> hidden again, as long as no gesture or tap occurred
NextScenario(sc) ==
    IF sc = "hidden" THEN "shown"
    ELSE IF sc = "shown" THEN "hiddenAgain"
    ELSE "interacted"

\* the events the host delivers stop once MaxCloses closes have been reported
Accepting == closeCount < MaxCloses

----------------------------------------------------------------------------
Init ==
    /\ props \in PropsSet
    /\ visible \in BOOLEAN
    /\ animatedHeight = 0
    /\ isDragging = FALSE
    /\ gestureActive = FALSE
    /\ startHeight = NoValue
    /\ anim = EffectAnim(visible)          \* the effect runs on mount
    /\ closeCount = 0
    /\ pendingOnClose = 0
    /\ lastNotified = IF props.onHeightChange THEN 0 ELSE NoValue
    /\ lastCmd = "effect"
    /\ scenario = IF visible THEN "interacted" ELSE "hidden"
    /\ replacedClose = FALSE

\* `visible` changes and the effect runs again; the replaced animation's
\* callback runs with finished = false
SetVisible ==
    /\ Accepting
    /\ visible' = ~visible
    /\ anim' = EffectAnim(visible')
    /\ replacedClose' = ReplacesClose(anim)
    /\ closeCount' = closeCount + FinishedCallback(anim, FALSE)
    /\ pendingOnClose' = pendingOnClose + FinishedCallback(anim, FALSE)
    /\ gestureActive' = (gestureActive /\ HandleMounted(visible'))
    /\ lastCmd' = "effect"
    /\ scenario' = NextScenario(scenario)
    /\ UNCHANGED << props, animatedHeight, isDragging, startHeight, lastNotified >>

\* gestureHandler.onStart
DragStart ==
    /\ Accepting
    /\ ~gestureActive
    /\ HandleMounted(visible)
    /\ animatedHeight > 0                  \* the handle lies inside the sheet
    /\ gestureActive' = TRUE
    /\ startHeight' = animatedHeight
    /\ isDragging' = TRUE
    /\ lastCmd' = "onStart"
    /\ scenario' = "interacted"
    /\ UNCHANGED << replacedClose, props, visible, animatedHeight, anim, closeCount,
                    pendingOnClose, lastNotified >>

\* gestureHandler.onActive
DragActive ==
    /\ Accepting
    /\ gestureActive
    /\ \E translationY \in TranslationYs :
         IF disableClose
         THEN UNCHANGED << animatedHeight, anim, lastNotified, closeCount,
                           pendingOnClose, replacedClose >>
         ELSE /\ animatedHeight' = Clamp(startHeight - translationY)
              /\ anim' = NoAnim            \* a plain write cancels the animation
              /\ replacedClose' = ReplacesClose(anim)
              /\ closeCount' = closeCount + FinishedCallback(anim, FALSE)
              /\ pendingOnClose' = pendingOnClose + FinishedCallback(anim, FALSE)
              /\ lastNotified' = DerivedNotify(animatedHeight, animatedHeight')
    /\ lastCmd' = "onActive"
    /\ scenario' = "interacted"
    /\ UNCHANGED << props, visible, isDragging, gestureActive, startHeight >>

\* gestureHandler.onEnd
DragEnd ==
    /\ Accepting
    /\ gestureActive
    /\ gestureActive' = FALSE
    /\ isDragging' = FALSE
    /\ anim' = IF disableClose THEN OnEndDisabledAnim
                               ELSE OnEndSnapAnim(animatedHeight)
    /\ replacedClose' = ReplacesClose(anim)
    /\ closeCount' = closeCount + FinishedCallback(anim, FALSE)
    /\ pendingOnClose' = pendingOnClose + FinishedCallback(anim, FALSE)
    /\ lastCmd' = "onEnd"
    /\ scenario' = "interacted"
    /\ UNCHANGED << props, visible, animatedHeight, startHeight, lastNotified >>

\* the gesture is cancelled or fails: no onCancel/onFail/onFinish handler exists
DragCancel ==
    /\ Accepting
    /\ gestureActive
    /\ gestureActive' = FALSE
    /\ lastCmd' = "cancel"
    /\ scenario' = "interacted"
    /\ UNCHANGED << replacedClose, props, visible, animatedHeight, isDragging, startHeight,
                    anim, closeCount, pendingOnClose, lastNotified >>

\* handleBackdropPress (the Pressable exists in modal mode with showBackdrop)
BackdropPress ==
    /\ Accepting
    /\ isModal /\ showBackdrop /\ visible
    /\ IF ~disableClose
       THEN /\ anim' = BackdropAnim
            /\ replacedClose' = ReplacesClose(anim)
            /\ closeCount' = closeCount + FinishedCallback(anim, FALSE)
            /\ pendingOnClose' = pendingOnClose + FinishedCallback(anim, FALSE)
       ELSE UNCHANGED << anim, closeCount, pendingOnClose, replacedClose >>
    /\ lastCmd' = "backdrop"
    /\ scenario' = "interacted"
    /\ UNCHANGED << props, visible, animatedHeight, isDragging, gestureActive,
                    startHeight, lastNotified >>

\* one intermediate frame of the running animation
AnimFrame ==
    /\ anim.active
    /\ \E v \in Frames(anim, animatedHeight) :
         /\ animatedHeight' = v
         /\ lastNotified' = DerivedNotify(animatedHeight, v)
    /\ UNCHANGED << replacedClose, props, visible, isDragging, gestureActive, startHeight,
                    anim, closeCount, pendingOnClose, lastCmd, scenario >>

\* the running animation reaches its target; its callback runs with finished = true
AnimFinish ==
    /\ anim.active
    /\ animatedHeight' = anim.toValue
    /\ lastNotified' = DerivedNotify(animatedHeight, animatedHeight')
    /\ closeCount' = closeCount + FinishedCallback(anim, TRUE)
    /\ pendingOnClose' = pendingOnClose + FinishedCallback(anim, TRUE)
    /\ anim' = NoAnim
    /\ UNCHANGED << replacedClose, props, visible, isDragging, gestureActive, startHeight, lastCmd,
                    scenario >>

\* the JS thread runs an onClose call that runOnJS scheduled
OnCloseRuns ==
    /\ pendingOnClose > 0
    /\ pendingOnClose' = pendingOnClose - 1
    /\ UNCHANGED << replacedClose, props, visible, animatedHeight, isDragging, gestureActive,
                    startHeight, anim, closeCount, lastNotified, lastCmd, scenario >>

Next ==
    \/ SetVisible
    \/ DragStart
    \/ DragActive
    \/ DragEnd
    \/ DragCancel
    \/ BackdropPress
    \/ AnimFrame
    \/ AnimFinish
    \/ OnCloseRuns

Spec == Init /\ [][Next]_vars

\* the animation engine keeps running: an assigned animation completes unless
\* replaced; the JS thread runs the calls scheduled on it
FairSpec == Spec /\ WF_vars(AnimFinish) /\ WF_vars(OnCloseRuns)

----------------------------------------------------------------------------
Settled == ~gestureActive /\ ~anim.active

\* x clamped to [lo, hi], written out by cases
Between(lo, x, hi) == IF x < lo THEN lo ELSE IF x > hi THEN hi ELSE x

\* the step is a run of a gesture or backdrop handler
DragCmds == { "onStart", "onActive", "onEnd", "cancel" }
IsDragEndStep == gestureActive /\ ~gestureActive' /\ lastCmd' = "onEnd"
IsHandlerStep == lastCmd' # lastCmd \/ gestureActive' # gestureActive

----------------------------------------------------------------------------
\* C1: with closing enabled, every height written by a drag update is
\* clamp(startHeight - translationY, minHeight, maxHeight) and so lies within
\* [minHeight, maxHeight], whatever startHeight was captured at drag start.
C1_DragUpdateClamped ==
    [][ (~disableClose /\ gestureActive /\ lastCmd' = "onActive")
        => /\ minHeight <= animatedHeight' /\ animatedHeight' <= maxHeight
           /\ \E t \in TranslationYs :
                animatedHeight' = Between(minHeight, startHeight - t, maxHeight)
      ]_vars

\* a drag that started above maxHeight has been dragged down to minHeight
C1_Witness ==
    /\ ~disableClose /\ lastCmd = "onActive"
    /\ startHeight > maxHeight
    /\ animatedHeight = minHeight

----------------------------------------------------------------------------
\* C2 (as claimed): in every settled state (no drag in progress, no animation
\* in flight) minHeight <= height value <= maxHeight.
C2_SettledWithinBounds ==
    Settled => (minHeight <= animatedHeight /\ animatedHeight <= maxHeight)

\* C2 (amended): in every settled state the height value is 0 (closed), the
\* target height (open), or within [minHeight, maxHeight].
C2_SettledClosedOpenOrWithinBounds ==
    Settled => \/ animatedHeight = 0
               \/ animatedHeight = height
               \/ (minHeight <= animatedHeight /\ animatedHeight <= maxHeight)

\* the sheet rests open at a target height above maxHeight after a drag
C2_Witness ==
    /\ Settled /\ lastCmd = "onEnd"
    /\ animatedHeight = height /\ height > maxHeight

----------------------------------------------------------------------------
\* C3: with disableClose, no drag event and no backdrop tap invokes onClose or
\* starts an animation towards 0: drag updates and taps leave the animation
\* alone, and the end of a drag commands the target height.
C3_DisableCloseNeverCloses ==
    /\ [](disableClose => (closeCount = 0 /\ ~anim.closeCb))
    /\ [][ (disableClose /\ IsHandlerStep /\ lastCmd' \in DragCmds \cup {"backdrop"})
            => /\ closeCount' = closeCount
               /\ IF IsDragEndStep
                  THEN anim'.active /\ anim'.toValue # 0
                  ELSE anim' = anim
          ]_vars

\* a backdrop tap on an open sheet with disableClose left it open
C3_Witness ==
    /\ disableClose /\ lastCmd = "backdrop" /\ Settled
    /\ animatedHeight = height /\ closeCount = 0

----------------------------------------------------------------------------
\* C9: with an observer, every change of the height value is notified with the
\* new value, so the last notified value equals the current height; without
\* an observer nothing is ever notified.
C9_ObserverFollowsHeight ==
    /\ onHeightChange => lastNotified = animatedHeight
    /\ ~onHeightChange => lastNotified = NoValue

\* the observer has seen the height the sheet snapped to after a drag
C9_Witness ==
    /\ onHeightChange /\ Settled /\ lastCmd = "onEnd"
    /\ lastNotified = maxHeight /\ animatedHeight = maxHeight

TypeOK ==
    /\ props \in PropsSet
    /\ visible \in BOOLEAN
    /\ animatedHeight \in Grid
    /\ closeCount \in 0..MaxCloses
    /\ pendingOnClose \in 0..closeCount

----------------------------------------------------------------------------
\* the animation commanded by the last drag end completes
IsFinishAfter(cmd) ==
    lastCmd = cmd /\ lastCmd' = cmd /\ anim.active /\ ~anim'.active

\* C4 (as claimed): with closing enabled, every drag that ends at a height
\* strictly below height - 80 starts the closing animation (timing to 0 that
\* reports onClose), end heights equal to minHeight or maxHeight included.
C4_BelowThresholdAlwaysCloses ==
    [][ (IsDragEndStep /\ ~disableClose /\ animatedHeight < height - CloseThreshold)
        => anim' = withTimingThenClose(0) ]_vars

\* C4 (amended): with closing enabled, a drag that ends at a height h with
\* minHeight < h < maxHeight and h < height - 80 starts the closing animation;
\* when that animation completes the height is 0 and onClose has been invoked
\* once more, and it completes unless another handler runs first.
C4_BelowThresholdInsideBoundsCloses ==
    /\ [][ (IsDragEndStep /\ ~disableClose
             /\ minHeight < animatedHeight /\ animatedHeight < maxHeight
             /\ animatedHeight < height - CloseThreshold)
            => anim' = withTimingThenClose(0) ]_vars
    /\ [][ (IsFinishAfter("onEnd") /\ anim.closeCb)
            => (animatedHeight' = 0 /\ closeCount' = closeCount + 1) ]_vars
    /\ \A k \in 0..MaxCloses :
          (lastCmd = "onEnd" /\ anim.closeCb /\ closeCount = k)
             ~> \/ (~anim.active /\ animatedHeight = 0 /\ closeCount = k + 1)
                \/ lastCmd # "onEnd"

\* a drag released below the threshold has closed the sheet and reported it
C4_Witness ==
    /\ ~disableClose /\ lastCmd = "onEnd" /\ Settled
    /\ animatedHeight = 0 /\ closeCount = 1 /\ scenario = "interacted"
    /\ startHeight = height

----------------------------------------------------------------------------
\* C5 (as claimed): with closing enabled, every drag that ends at a height h
\* with h >= height - 80 and minHeight <= h <= maxHeight is animated back to
\* the target height.
C5_AboveThresholdAlwaysRestores ==
    [][ (IsDragEndStep /\ ~disableClose
         /\ animatedHeight >= height - CloseThreshold
         /\ minHeight <= animatedHeight /\ animatedHeight <= maxHeight)
        => anim' = withSpring(height) ]_vars

\* C5 (amended): with closing enabled, a drag that ends at a height h with
\* h >= height - 80 and minHeight < h < maxHeight is animated back to the
\* target height: it settles there and onClose is not invoked.
C5_AboveThresholdInsideBoundsRestores ==
    /\ [][ (IsDragEndStep /\ ~disableClose
             /\ animatedHeight >= height - CloseThreshold
             /\ minHeight < animatedHeight /\ animatedHeight < maxHeight)
            => anim' = withSpring(height) ]_vars
    /\ [][ (IsFinishAfter("onEnd") /\ anim = withSpring(height))
            => (animatedHeight' = height /\ closeCount' = closeCount) ]_vars
    /\ [][ (lastCmd = "onEnd" /\ lastCmd' = "onEnd" /\ ~anim.closeCb)
            => closeCount' = closeCount ]_vars

\* a drag released exactly at height - 80 has settled back at the target height
C5_Witness ==
    /\ ~disableClose /\ lastCmd = "onEnd" /\ Settled
    /\ startHeight = height - CloseThreshold
    /\ minHeight < startHeight /\ startHeight < maxHeight
    /\ animatedHeight = height /\ closeCount = 0

----------------------------------------------------------------------------
----------------------------------------------------------------------------
\* C7: only the modal sheet has a backdrop tap; with closing enabled the tap
\* starts the timing animation to 0; when it completes the height is 0 and
\* onClose has been invoked once for it; it completes unless another handler
\* runs first.
C7_BackdropTapCloses ==
    /\ [](lastCmd = "backdrop" => isModal)
    /\ []((lastCmd = "backdrop" /\ ~disableClose /\ anim.active)
            => anim = withTimingThenClose(0))
    /\ [][ (lastCmd' = "backdrop" /\ lastCmd # "backdrop" /\ ~disableClose)
            => (anim' = withTimingThenClose(0) /\ closeCount' = closeCount) ]_vars
    /\ [][ (IsFinishAfter("backdrop") /\ ~disableClose)
            => (animatedHeight' = 0 /\ closeCount' = closeCount + 1) ]_vars
    /\ \A k \in 0..MaxCloses :
          (lastCmd = "backdrop" /\ ~disableClose /\ anim.active /\ closeCount = k)
             ~> \/ (~anim.active /\ animatedHeight = 0 /\ closeCount = k + 1)
                \/ lastCmd # "backdrop"

\* a backdrop tap has closed the sheet and reported it once
C7_Witness ==
    /\ ~disableClose /\ lastCmd = "backdrop" /\ ~anim.active
    /\ animatedHeight = 0 /\ closeCount = 1 /\ visible

----------------------------------------------------------------------------
\* C8: after visible became true (or the sheet was mounted visible), as long
\* as no other handler runs, the height settles at exactly the target height
\* and onClose is not invoked.
C8_ShowSettlesAtTarget ==
    /\ []((lastCmd = "effect" /\ visible /\ ~anim.active) => animatedHeight = height)
    /\ [][ (lastCmd' = "effect" /\ visible') => closeCount' = closeCount ]_vars
    /\ (lastCmd = "effect" /\ visible)
          ~> \/ (~anim.active /\ animatedHeight = height)
             \/ ~(lastCmd = "effect" /\ visible)

\* after earlier drags, the sheet was shown again and rests at a target height
\* above maxHeight
C8_Witness ==
    /\ lastCmd = "effect" /\ visible /\ ~anim.active
    /\ scenario = "interacted" /\ isDragging
    /\ animatedHeight = height /\ height > maxHeight

----------------------------------------------------------------------------
\* C10: with closing enabled the snap policy tests maxHeight, then minHeight,
\* then the close threshold: a drag ending at h >= maxHeight snaps to
\* maxHeight, otherwise one ending at h <= minHeight snaps to minHeight; in
\* both cases no closing animation is started and onClose is not invoked,
\* however h compares with height - 80.
C10_BoundsBeforeThreshold ==
    /\ [][ (IsDragEndStep /\ ~disableClose /\ animatedHeight >= maxHeight)
            => anim' = withSpring(maxHeight) ]_vars
    /\ [][ (IsDragEndStep /\ ~disableClose
             /\ animatedHeight < maxHeight /\ animatedHeight <= minHeight)
            => anim' = withSpring(minHeight) ]_vars
    /\ [][ (IsFinishAfter("onEnd") /\ anim.kind = "spring")
            => (animatedHeight' = anim.toValue /\ closeCount' = closeCount) ]_vars

\* with minHeight = 0, a sheet dragged down to 0 and released rests at 0 while
\* still visible, and onClose was never invoked
C10_Witness ==
    /\ ~disableClose /\ lastCmd = "onEnd" /\ Settled /\ visible
    /\ minHeight = 0 /\ animatedHeight = 0 /\ closeCount = 0
    /\ startHeight = height /\ 0 < height - CloseThreshold

----------------------------------------------------------------------------
\* C11: with disableClose, a drag update writes nothing (height value and
\* assigned animation are left as they were), the end of the drag commands a
\* spring to the target height, and once that spring completes the height is
\* the target height, inside [minHeight, maxHeight] or not.
C11_DisabledDragSnapsBackToTarget ==
    /\ [][ (disableClose /\ gestureActive /\ lastCmd' = "onActive" /\ lastCmd # "onActive")
            => (animatedHeight' = animatedHeight /\ anim' = anim) ]_vars
    /\ [][ (disableClose /\ IsDragEndStep)
            => (anim' = withSpring(height) /\ animatedHeight' = animatedHeight) ]_vars
    /\ []((disableClose /\ lastCmd = "onEnd" /\ ~anim.active) => animatedHeight = height)

\* with disableClose, a drag has ended and the sheet rests at a target height
\* above maxHeight
C11_Witness ==
    /\ disableClose /\ lastCmd = "onEnd" /\ Settled
    /\ animatedHeight = height /\ height > maxHeight

----------------------------------------------------------------------------
\* a step of the animation engine: no handler ran
IsEngineStep ==
    /\ anim.active
    /\ lastCmd' = lastCmd /\ visible' = visible /\ gestureActive' = gestureActive

\* C12: height commands are last-write-wins. The value has one assigned
\* animation; each command (visibility effect, drag update, drag end, backdrop
\* tap) replaces it by its own; without a new command the animation stays
\* assigned until the height reaches its target; and onClose is called only
\* when a close animation completes, never when it is replaced.
C12_LastWriteWins ==
    /\ [][ (visible' # visible)
            => anim' = (IF visible' THEN withSpring(height) ELSE withTiming(0)) ]_vars
    /\ [][ (~disableClose /\ gestureActive /\ lastCmd' = "onActive" /\ lastCmd # "onActive")
            => anim' = NoAnim ]_vars
    /\ [][ IsDragEndStep
            => (anim'.active /\ anim'.toValue \in {0, height, minHeight, maxHeight}) ]_vars
    /\ [][ (~disableClose /\ lastCmd' = "backdrop" /\ lastCmd # "backdrop")
            => anim' = withTimingThenClose(0) ]_vars
    /\ [][ IsEngineStep
            => \/ anim' = anim
               \/ (anim' = NoAnim /\ animatedHeight' = anim.toValue) ]_vars
    /\ [][ (closeCount' # closeCount)
            => /\ IsEngineStep /\ anim.closeCb
               /\ anim' = NoAnim /\ animatedHeight' = 0
               /\ closeCount' = closeCount + 1 ]_vars
    /\ [][ (ReplacesClose(anim) /\ (IsHandlerStep \/ visible' # visible))
            => closeCount' = closeCount ]_vars

\* a drag update replaced a running close animation and onClose was never called
C12_Witness ==
    /\ replacedClose /\ lastCmd = "onActive" /\ ~anim.active
    /\ closeCount = 0 /\ pendingOnClose = 0
    /\ animatedHeight = maxHeight

----------------------------------------------------------------------------
\* C13: in every reachable state the drag flag isDragging is true exactly when
\* a drag gesture is active, however the gesture terminated (end, cancel or
\* failure).
C13_DragFlagTracksGesture ==
    isDragging = gestureActive

----------------------------------------------------------------------------
\* C14: whenever visible is false and the sheet is quiescent (no drag in
\* progress, no animation in flight) the height is 0, whatever the
\* interleaving of the visibility change with drag events and backdrop taps.
C14_HiddenRestsAtZero ==
    (~visible /\ Settled) => animatedHeight = 0

----------------------------------------------------------------------------
\* close animations are started only by a drag end or a backdrop tap with
\* closing enabled, and onClose is called only when one completes, once
OnCloseOnlyOnCompletedClose ==
    /\ [][ (anim'.closeCb /\ ~anim.closeCb)
            => (~disableClose /\ lastCmd' \in {"onEnd", "backdrop"}) ]_vars
    /\ [][ (closeCount' # closeCount)
            => /\ ~disableClose /\ IsEngineStep
               /\ anim = withTimingThenClose(0) /\ ~anim'.active
               /\ closeCount' = closeCount + 1 ]_vars
    /\ [][ (IsEngineStep /\ anim.closeCb /\ ~anim'.active)
            => closeCount' = closeCount + 1 ]_vars

\* C15 (as claimed): onClose is called only by the completion of an animation
\* to 0 started by a drag end or a backdrop tap with closing enabled, once per
\* completed animation, and at the moment onClose runs the height is exactly 0.
C15_OnCloseRunsAtZero ==
    /\ OnCloseOnlyOnCompletedClose
    /\ [][ (pendingOnClose' < pendingOnClose) => animatedHeight = 0 ]_vars

\* C15 (amended): onClose is called only by the completion of an animation
\* to 0 started by a drag end or a backdrop tap with closing enabled, once per
\* completed animation; the height is exactly 0 at the moment the animation
\* completes and the call is handed to the JS thread, which runs each call once.
C15_OnCloseScheduledAtZero ==
    /\ OnCloseOnlyOnCompletedClose
    /\ [][ (closeCount' # closeCount)
            => (animatedHeight' = 0 /\ pendingOnClose' = pendingOnClose + 1) ]_vars
    /\ [][ (pendingOnClose' < pendingOnClose)
            => (pendingOnClose' = pendingOnClose - 1 /\ closeCount' = closeCount) ]_vars
    /\ [](pendingOnClose <= closeCount)

\* a close animation started by a drag end completed at height 0; its one
\* onClose call has run
C15_Witness ==
    /\ ~disableClose /\ lastCmd = "onEnd" /\ ~anim.active
    /\ animatedHeight = 0 /\ closeCount = 1 /\ pendingOnClose = 0
    /\ minHeight < startHeight /\ startHeight < height - CloseThreshold

----------------------------------------------------------------------------
\* C16: in every quiescent state whose last gesture ended with onEnd (the drag
\* flag is down), the height is 0, the target height, minHeight or maxHeight;
\* this covers every state reached through complete gestures only.
C16_RestsAtSnapPoint ==
    (Settled /\ ~isDragging) => animatedHeight \in {0, height, minHeight, maxHeight}

\* after a complete drag the sheet rests at a minHeight that is neither 0 nor
\* the target height
C16_Witness ==
    /\ Settled /\ ~isDragging /\ lastCmd = "onEnd"
    /\ animatedHeight = minHeight /\ minHeight # 0 /\ minHeight # height

====
